---- MODULE Spec2Model ----
(***************************************************************************)
(* The Minesweeper knowledge engine of src/minesweeper.py: Sentence,       *)
(* MinesweeperAI and the part of Minesweeper (the board) that produces the *)
(* observations the engine is fed.                                         *)
(*                                                                         *)
(* A cell is a pair <<row, col>>.  A Sentence is a record                  *)
(* [cells |-> set of cells, count |-> integer].  Every Sentence object     *)
(* owns its cell set (Sentence.__init__ copies it) and list.remove and     *)
(* `in` compare by Sentence.__eq__, so the knowledge list is modelled as a *)
(* sequence of Sentence values.                                            *)
(***************************************************************************)
EXTENDS Integers, Sequences, FiniteSets, TLC

VARIABLES height, width, board, moves_made, safes, mines, knowledge, sent, result, nops

vars == <<height, width, board, moves_made, safes, mines, knowledge, sent, result, nops>>

(***************************************************************************)
(* Program constants and model bounds.                                     *)
(***************************************************************************)
\* The default height and width of MinesweeperAI.__init__.
DefaultSide == 8
\* The literal in neighbours(): cells with a coordinate in {-1, 8} are dropped.
OffBoardHigh == 8
\* The side of the small board the model also builds.
SmallSide == 1
\* Calls are made on the WinSize x WinSize cells at the high corner of the board.
WinSize == 2
\* The largest number of mines of a layout.
MaxMines == 2
\* The largest count reported by an arbitrary (possibly wrong) observation.
MaxCount == 2
\* The number of engine calls of one run.
MaxOps == 3
\* Truthful games observe the ObsWin x ObsWin cells at the high corner of the board.
ObsWin == 3
\* The number of engine calls of one truthful game.
MaxObs == 4
\* Stand-alone sentences have their cells among the first SentCells cells of row 0.
SentCells == 3

NoCell == <<>>

\* The boards engines are built for: the default one, one a row and a column
\* larger, and a small one.
Boards == <<<<DefaultSide, DefaultSide>>,
            <<DefaultSide + 1, DefaultSide + 1>>,
            <<SmallSide, SmallSide>>>>

AllCells(h, w) == {<<i, j>> : i \in 0..(h - 1), j \in 0..(w - 1)}

Corner(h, w, n) == {c \in AllCells(h, w) : c[1] >= h - n /\ c[2] >= w - n}

Window(h, w) == Corner(h, w, WinSize)

ObsWindow(h, w) == Corner(h, w, ObsWin)

Layouts(h, w) == {m \in SUBSET ObsWindow(h, w) : Cardinality(m) <= MaxMines}

(***************************************************************************)
(* Minesweeper (the board).                                                *)
(***************************************************************************)
\* The cells within one row and column of cell that are in bounds.
BoardNeighbours(h, w, cell) ==
    {c \in {<<i, j>> : i \in (cell[1] - 1)..(cell[1] + 1),
                       j \in (cell[2] - 1)..(cell[2] + 1)} :
        /\ c # cell
        /\ 0 <= c[1] /\ c[1] < h
        /\ 0 <= c[2] /\ c[2] < w}

nearby_mines(h, w, b, cell) ==
    Cardinality({c \in BoardNeighbours(h, w, cell) : c \in b})

is_mine(b, cell) == cell \in b

(***************************************************************************)
(* Sentence.                                                               *)
(***************************************************************************)
Sentence(cells, count) == [cells |-> cells, count |-> count]

\* known_mines without the comparison of count with len(self.cells).
KnownMinesAnyCount(s) ==
    IF s.count # 0 THEN s.cells ELSE {}

known_mines(s) ==
    IF s.count # 0 /\ s.count = Cardinality(s.cells) THEN s.cells ELSE {}

known_safes(s) ==
    IF s.count = 0 THEN s.cells ELSE {}

\* mark_mine without the membership test.
SentenceMarkMineAlways(s, cell) ==
    [cells |-> s.cells \ {cell}, count |-> s.count - 1]

SentenceMarkMine(s, cell) ==
    IF cell \in s.cells
    THEN [cells |-> s.cells \ {cell}, count |-> s.count - 1]
    ELSE s

SentenceMarkSafe(s, cell) ==
    IF cell \in s.cells /\ s.count > 0
    THEN [s EXCEPT !.cells = @ \ {cell}]
    ELSE s

(***************************************************************************)
(* list operations used on self.knowledge.                                 *)
(***************************************************************************)
Contains(seq, v) == \E i \in 1..Len(seq) : seq[i] = v

\* list.remove(v): drops the first element equal to v.
RemoveFirst(seq, v) ==
    IF ~Contains(seq, v) THEN seq
    ELSE LET i == CHOOSE k \in 1..Len(seq) :
                     seq[k] = v /\ \A m \in 1..(k - 1) : seq[m] # v
         IN  SubSeq(seq, 1, i - 1) \o SubSeq(seq, i + 1, Len(seq))

RECURSIVE RemoveEach(_, _)
\* for sentence in to_remove: self.knowledge.remove(sentence)
RemoveEach(seq, rem) ==
    IF rem = <<>> THEN seq
    ELSE RemoveEach(RemoveFirst(seq, Head(rem)), Tail(rem))

(***************************************************************************)
(* MinesweeperAI.  An engine state is a record of the four fields.         *)
(***************************************************************************)
AIState(mm, sf, mn, kn) ==
    [moves_made |-> mm, safes |-> sf, mines |-> mn, knowledge |-> kn]

AIMarkMine(st, cell) ==
    LET k         == st.knowledge
        \* `sentence.cells == cell` compares a set with a tuple: never true.
        full(s)   == s.count = Cardinality(s.cells)
        to_remove == SelectSeq(k, full)
        marked    == [i \in 1..Len(k) |->
                         IF full(k[i]) THEN k[i] ELSE SentenceMarkMine(k[i], cell)]
    IN  [st EXCEPT !.mines = @ \cup {cell},
                   !.knowledge = RemoveEach(marked, to_remove)]

\* mark_safe without self.safes.add(cell).
AIMarkSafeNoAdd(st, cell) ==
    LET k         == st.knowledge
        zero(s)   == s.count = 0
        to_remove == SelectSeq(k, zero)
        marked    == [i \in 1..Len(k) |->
                         IF zero(k[i]) THEN k[i] ELSE SentenceMarkSafe(k[i], cell)]
    IN  [st EXCEPT !.knowledge = RemoveEach(marked, to_remove)]

AIMarkSafe(st, cell) ==
    LET k         == st.knowledge
        zero(s)   == s.count = 0
        to_remove == SelectSeq(k, zero)
        marked    == [i \in 1..Len(k) |->
                         IF zero(k[i]) THEN k[i] ELSE SentenceMarkSafe(k[i], cell)]
    IN  [st EXCEPT !.safes = @ \cup {cell},
                   !.knowledge = RemoveEach(marked, to_remove)]

neighbours(cell) ==
    LET block == {<<cell[1] + i, cell[2] + j>> : i \in -1..1, j \in -1..1} \ {cell}
    IN  block \ {c \in block : c[1] \in {-1, OffBoardHigh} \/ c[2] \in {-1, OffBoardHigh}}

\* The cells of the new sentence of add_knowledge, in the state after mark_safe.
Unexplored(st, cell) ==
    (neighbours(cell) \ (st.safes \cup st.moves_made)) \ st.mines

\* The reported count taken as it is, known mines not subtracted.
AdjustedCountRaw(st, cell, count) == count

\* The count of the new sentence of add_knowledge.
AdjustedCount(st, cell, count) ==
    LET not_counting_mines == Cardinality(neighbours(cell) \ (st.safes \cup st.moves_made))
    IN  count - (not_counting_mines - Cardinality(Unexplored(st, cell)))

\* Lines 221-231: the move, mark_safe and the new sentence.
Ingest(st, cell, count) ==
    LET s1 == AIMarkSafe([st EXCEPT !.moves_made = @ \cup {cell}], cell)
    IN  IF Unexplored(s1, cell) # {}
        THEN [s1 EXCEPT !.knowledge =
                 Append(@, Sentence(Unexplored(s1, cell), AdjustedCount(s1, cell, count)))]
        ELSE s1

\* The condition of infer_knowledge without the issubset test.
InferGuardNoSubset(s1, s2) ==
    /\ s1 # s2
    /\ s1.count >= 1
    /\ s2.count >= 1

\* The condition under which infer_knowledge uses the pair (sentence1, sentence2).
InferGuard(s1, s2) ==
    /\ s1.cells \subseteq s2.cells
    /\ s1 # s2
    /\ s1.count >= 1
    /\ s2.count >= 1

\* The pair of sentences the double loop visits at step p (0-based).
PairFirst(k, p)  == k[(p \div Len(k)) + 1]
PairSecond(k, p) == k[(p % Len(k)) + 1]

InferRaises(k) ==
    \E p \in 0..(Len(k) * Len(k) - 1) :
        /\ InferGuard(PairFirst(k, p), PairSecond(k, p))
        /\ PairSecond(k, p).cells \ PairFirst(k, p).cells = {}

RECURSIVE NewKnowledge(_, _)
\* new_knowledge, from step p of the double loop on.
NewKnowledge(k, p) ==
    IF p >= Len(k) * Len(k) THEN <<>>
    ELSE LET s1 == PairFirst(k, p)
             s2 == PairSecond(k, p)
         IN  IF InferGuard(s1, s2)
             THEN <<Sentence(s2.cells \ s1.cells, s2.count - s1.count)>>
                      \o NewKnowledge(k, p + 1)
             ELSE NewKnowledge(k, p + 1)

RECURSIVE UsedKnowledge(_, _)
\* used_knowledge, from step p of the double loop on.
UsedKnowledge(k, p) ==
    IF p >= Len(k) * Len(k) THEN <<>>
    ELSE IF InferGuard(PairFirst(k, p), PairSecond(k, p))
         THEN <<PairSecond(k, p)>> \o UsedKnowledge(k, p + 1)
         ELSE UsedKnowledge(k, p + 1)

RECURSIVE AppendNew(_, _)
\* for sentence in new_knowledge: append it if not in self.knowledge
AppendNew(k, new) ==
    IF new = <<>> THEN k
    ELSE AppendNew(IF Contains(k, Head(new)) THEN k ELSE Append(k, Head(new)),
                   Tail(new))

\* for sentence in used_knowledge: remove it if in self.knowledge
RemoveUsed(k, used) == RemoveEach(k, used)

\* infer_knowledge when it does not raise.
InferKnowledge(k) ==
    RemoveUsed(AppendNew(k, NewKnowledge(k, 0)), UsedKnowledge(k, 0))

RECURSIVE UnionOver(_, _, _)
UnionOver(k, i, which) ==
    IF i > Len(k) THEN {}
    ELSE (IF which = "safes" THEN known_safes(k[i]) ELSE known_mines(k[i]))
             \cup UnionOver(k, i + 1, which)

SafeCells(k) == UnionOver(k, 1, "safes")
MineCells(k) == UnionOver(k, 1, "mines")

\* The cell a `for cell in <set>` loop visits next.  The source visits the set
\* in its iteration order; the marks of different cells commute (mark_safe
\* keeps counts, mark_mine keeps |cells| - count, and the removal tests read
\* only those), so the result is the same for every order.
NextCell(cells) ==
    CHOOSE c \in cells : \A d \in cells :
        c[1] < d[1] \/ (c[1] = d[1] /\ c[2] <= d[2])

RECURSIVE MarkSafeAll(_, _)
MarkSafeAll(st, cells) ==
    IF cells = {} THEN st
    ELSE MarkSafeAll(AIMarkSafe(st, NextCell(cells)), cells \ {NextCell(cells)})

RECURSIVE MarkMineAll(_, _)
MarkMineAll(st, cells) ==
    IF cells = {} THEN st
    ELSE MarkMineAll(AIMarkMine(st, NextCell(cells)), cells \ {NextCell(cells)})

ResolveCells(st) ==
    MarkMineAll(MarkSafeAll(st, SafeCells(st.knowledge)), MineCells(st.knowledge))

\* add_knowledge: the state it leaves, also when infer_knowledge raises.
AddKnowledgeRaises(st, cell, count) == InferRaises(Ingest(st, cell, count).knowledge)

AddKnowledgeState(st, cell, count) ==
    LET s3 == Ingest(st, cell, count)
    IN  IF InferRaises(s3.knowledge) THEN s3
        ELSE ResolveCells([s3 EXCEPT !.knowledge = InferKnowledge(@)])

\* make_safe_move without the difference with moves_made.
SafeMoveCandidatesAll(st) == st.safes

SafeMoveCandidates(st) == st.safes \ st.moves_made

RandomMoveCandidates(h, w, st) == (AllCells(h, w) \ st.moves_made) \ st.mines

\* A move query that pops the cell from self.safes itself.
MoveStatePop(st, cell) == [st EXCEPT !.safes = @ \ {cell}]

\* The engine state a move query leaves: the queries work on copies.
MoveState(st, cell) == st

(***************************************************************************)
(* The state machine.                                                      *)
(***************************************************************************)
AI == AIState(moves_made, safes, mines, knowledge)

NoSentence == Sentence({}, 0)

Result(op, cell, count, ret, raised) ==
    [op |-> op, cell |-> cell, count |-> count, ret |-> ret, raised |-> raised]

NoResult == Result("init", NoCell, 0, NoCell, FALSE)

SetAI(st) ==
    /\ moves_made' = st.moves_made
    /\ safes' = st.safes
    /\ mines' = st.mines
    /\ knowledge' = st.knowledge

InitAI ==
    /\ moves_made = {}
    /\ safes = {}
    /\ mines = {}
    /\ knowledge = <<>>
    /\ result = NoResult
    /\ nops = 0

\* An engine of any of the board sizes, fed arbitrary calls.
Init ==
    /\ \E i \in 1..Len(Boards) : height = Boards[i][1] /\ width = Boards[i][2]
    /\ board = {}
    /\ sent = NoSentence
    /\ InitAI

AddKnowledge(cell, count) ==
    /\ nops < MaxOps
    /\ SetAI(AddKnowledgeState(AI, cell, count))
    /\ result' = Result("add_knowledge", cell, count, NoCell,
                        AddKnowledgeRaises(AI, cell, count))
    /\ nops' = nops + 1
    /\ UNCHANGED <<height, width, board, sent>>

MarkSafe(cell) ==
    /\ nops < MaxOps
    /\ SetAI(AIMarkSafe(AI, cell))
    /\ result' = Result("mark_safe", cell, 0, NoCell, FALSE)
    /\ nops' = nops + 1
    /\ UNCHANGED <<height, width, board, sent>>

MarkMine(cell) ==
    /\ nops < MaxOps
    /\ SetAI(AIMarkMine(AI, cell))
    /\ result' = Result("mark_mine", cell, 0, NoCell, FALSE)
    /\ nops' = nops + 1
    /\ UNCHANGED <<height, width, board, sent>>

\* set.pop() on a copy: any candidate, or None when there is none.
MakeSafeMove(limit) ==
    /\ nops < limit
    /\ \E ret \in (IF SafeMoveCandidates(AI) = {} THEN {NoCell}
                    ELSE SafeMoveCandidates(AI)) :
          /\ SetAI(MoveState(AI, ret))
          /\ result' = Result("make_safe_move", NoCell, 0, ret, FALSE)
    /\ nops' = nops + 1
    /\ UNCHANGED <<height, width, board, sent>>

MakeRandomMove(limit) ==
    /\ nops < limit
    /\ \E ret \in (IF RandomMoveCandidates(height, width, AI) = {} THEN {NoCell}
                    ELSE RandomMoveCandidates(height, width, AI)) :
          /\ SetAI(MoveState(AI, ret))
          /\ result' = Result("make_random_move", NoCell, 0, ret, FALSE)
    /\ nops' = nops + 1
    /\ UNCHANGED <<height, width, board, sent>>

Next ==
    \/ \E cell \in Window(height, width) : \E count \in 0..MaxCount :
           AddKnowledge(cell, count)
    \/ \E cell \in Window(height, width) : MarkSafe(cell)
    \/ \E cell \in Window(height, width) : MarkMine(cell)
    \/ MakeSafeMove(MaxOps)
    \/ MakeRandomMove(MaxOps)

Spec == Init /\ [][Next]_vars

\* An engine fed add_knowledge calls only, with any cell and any count.
NextObservations ==
    \E cell \in Window(height, width) : \E count \in 0..MaxCount :
        AddKnowledge(cell, count)

SpecObservations == Init /\ [][NextObservations]_vars

\* A game on the default board with a fixed mine layout: every observation is
\* the board's nearby_mines of a cell that is not a mine.
InitTruthful ==
    /\ height = DefaultSide
    /\ width = DefaultSide
    /\ board \in Layouts(height, width)
    /\ sent = NoSentence
    /\ InitAI

Observe(cell) ==
    /\ nops < MaxObs
    /\ ~is_mine(board, cell)
    /\ SetAI(AddKnowledgeState(AI, cell, nearby_mines(height, width, board, cell)))
    /\ result' = Result("add_knowledge", cell,
                        nearby_mines(height, width, board, cell), NoCell,
                        AddKnowledgeRaises(AI, cell,
                            nearby_mines(height, width, board, cell)))
    /\ nops' = nops + 1
    /\ UNCHANGED <<height, width, board, sent>>

NextTruthful ==
    \/ \E cell \in ObsWindow(height, width) : Observe(cell)
    \/ MakeSafeMove(MaxObs)

SpecTruthful == InitTruthful /\ [][NextTruthful]_vars

\* A truthful game on a board of any of the sizes engines are built for.
InitTruthfulBoards ==
    /\ \E i \in 1..Len(Boards) : height = Boards[i][1] /\ width = Boards[i][2]
    /\ board \in Layouts(height, width)
    /\ sent = NoSentence
    /\ InitAI

SpecTruthfulBoards == InitTruthfulBoards /\ [][NextTruthful]_vars

\* A stand-alone Sentence object and the calls of its methods.
SentCellSet == {<<0, j>> : j \in 0..(SentCells - 1)}

InitSentence ==
    /\ height = DefaultSide
    /\ width = DefaultSide
    /\ board = {}
    /\ sent \in {Sentence(cs, n) : cs \in SUBSET SentCellSet, n \in 0..(SentCells + 1)}
    /\ InitAI

SentMarkMine(cell) ==
    /\ sent' = SentenceMarkMine(sent, cell)
    /\ result' = Result("Sentence.mark_mine", cell, 0, NoCell, FALSE)
    /\ UNCHANGED <<height, width, board, moves_made, safes, mines, knowledge, nops>>

SentMarkSafe(cell) ==
    /\ sent' = SentenceMarkSafe(sent, cell)
    /\ result' = Result("Sentence.mark_safe", cell, 0, NoCell, FALSE)
    /\ UNCHANGED <<height, width, board, moves_made, safes, mines, knowledge, nops>>

\* The outcome of a query of a Sentence: the set it returns, in ret.
QueryResult(op, cells) == Result(op, NoCell, 0, cells, FALSE)

SentKnownMines ==
    /\ result' = QueryResult("Sentence.known_mines", known_mines(sent))
    /\ UNCHANGED <<height, width, board, moves_made, safes, mines, knowledge, sent, nops>>

SentKnownSafes ==
    /\ result' = QueryResult("Sentence.known_safes", known_safes(sent))
    /\ UNCHANGED <<height, width, board, moves_made, safes, mines, knowledge, sent, nops>>

NextSentence ==
    \/ \E cell \in SentCellSet : SentMarkMine(cell)
    \/ \E cell \in SentCellSet : SentMarkSafe(cell)
    \/ SentKnownMines
    \/ SentKnownSafes

SpecSentence == InitSentence /\ [][NextSentence]_vars

(***************************************************************************)
(* Properties.                                                             *)
(***************************************************************************)
DefaultBoard == height = OffBoardHigh /\ width = OffBoardHigh

Returned(op) == result.op = op /\ ~result.raised

\* C1: in a truthful game on the square board whose side is the bound of
\* neighbours(), every cell of mines is a true mine, no cell of safes is one,
\* mines and safes are disjoint, and make_safe_move never returns a true mine.
C1_Sound ==
    DefaultBoard =>
        /\ mines \subseteq board
        /\ safes \cap board = {}
        /\ mines \cap safes = {}
        /\ (result.op = "make_safe_move" /\ result.ret # NoCell)
               => ~is_mine(board, result.ret)

C1_Witness ==
    /\ DefaultBoard
    /\ mines # {}
    /\ result.op = "make_safe_move"
    /\ result.ret # NoCell
    /\ result.ret \notin moves_made

\* C2: when no on-board neighbour of c is in mines, add_knowledge(c, 0) returns
\* with every on-board neighbour of c in safes.
C2_ZeroCountNeighboursSafe ==
    [][(/\ result'.op = "add_knowledge"
        /\ result'.count = 0
        /\ ~result'.raised
        /\ BoardNeighbours(height, width, result'.cell) \cap mines = {})
          => BoardNeighbours(height, width, result'.cell) \subseteq safes']_vars

\* C2 on the default 8 x 8 board (what the code guarantees).
C2_OnDefaultBoard ==
    [][(/\ DefaultBoard
        /\ result'.op = "add_knowledge"
        /\ result'.count = 0
        /\ ~result'.raised
        /\ BoardNeighbours(height, width, result'.cell) \cap mines = {})
          => BoardNeighbours(height, width, result'.cell) \subseteq safes']_vars

\* The sentence add_knowledge(cell, count) is to build from engine state st: over
\* the on-board neighbours in none of safes, moves_made, mines, with the count
\* less the neighbours already in mines.
ClaimedCells(h, w, st, cell) ==
    BoardNeighbours(h, w, cell) \ (st.safes \cup st.moves_made \cup st.mines)

ClaimedCount(h, w, st, cell, count) ==
    count - Cardinality(BoardNeighbours(h, w, cell) \cap st.mines)

BuildsClaimedSentence(h, w, st, cell, count) ==
    LET before == AIMarkSafe([st EXCEPT !.moves_made = @ \cup {cell}], cell).knowledge
        after  == Ingest(st, cell, count).knowledge
        cells  == ClaimedCells(h, w, st, cell)
    IN  IF cells = {} THEN after = before
        ELSE after = Append(before, Sentence(cells, ClaimedCount(h, w, st, cell, count)))

\* C3: add_knowledge(c, n) builds its sentence over exactly the unresolved
\* neighbours of c with count n less the neighbours already in mines, and when
\* that count is 0 every unresolved neighbour is in safes on return.
C3_NewSentence ==
    [][result'.op = "add_knowledge" =>
         /\ BuildsClaimedSentence(height, width, AI, result'.cell, result'.count)
         /\ (/\ ~result'.raised
             /\ ClaimedCount(height, width, AI, result'.cell, result'.count) = 0)
               => ClaimedCells(height, width, AI, result'.cell) \subseteq safes']_vars

\* C3 on the default board from states where mines and safes are disjoint.
C3_OnDefaultBoardConsistent ==
    [][(DefaultBoard /\ mines \cap safes = {} /\ result'.op = "add_knowledge") =>
         /\ BuildsClaimedSentence(height, width, AI, result'.cell, result'.count)
         /\ (/\ ~result'.raised
             /\ ClaimedCount(height, width, AI, result'.cell, result'.count) = 0)
               => ClaimedCells(height, width, AI, result'.cell) \subseteq safes']_vars

\* C4: make_safe_move returns a cell of safes - moves_made and None exactly when
\* that set is empty; make_random_move returns a board cell outside moves_made
\* and mines and None exactly when there is none.
C4_MovesFromCandidates ==
    /\ result.op = "make_safe_move" =>
          IF safes \ moves_made = {} THEN result.ret = NoCell
          ELSE result.ret \in safes \ moves_made
    /\ result.op = "make_random_move" =>
          IF AllCells(height, width) \ (moves_made \cup mines) = {}
          THEN result.ret = NoCell
          ELSE result.ret \in AllCells(height, width) \ (moves_made \cup mines)

C4_Witness ==
    /\ result.op = "make_random_move"
    /\ result.ret = NoCell
    /\ moves_made \cup mines = AllCells(height, width)

\* C5: make_safe_move and make_random_move leave moves_made, safes, mines and the
\* knowledge base unchanged.
C5_MovesChangeNothing ==
    [][result'.op \in {"make_safe_move", "make_random_move"}
          => UNCHANGED <<moves_made, safes, mines, knowledge>>]_vars

C5_Witness ==
    /\ result.op = "make_safe_move"
    /\ result.ret # NoCell
    /\ knowledge # <<>>
    /\ moves_made # {}

\* Two distinct sentences of k, one over the cells of the other, whose
\* difference is the empty sentence with a count that is not 0.
Contradictory(k) ==
    \E i, j \in 1..Len(k) :
        /\ k[i] # k[j]
        /\ k[i].cells \subseteq k[j].cells
        /\ k[j].count >= 1
        /\ k[j].cells \ k[i].cells = {}
        /\ k[j].count - k[i].count # 0

\* C6: when the knowledge base the derivation pass runs on holds such a pair,
\* add_knowledge fails instead of returning normally.
C6_ContradictionRaises ==
    [][(/\ result'.op = "add_knowledge"
        /\ Contradictory(Ingest(AI, result'.cell, result'.count).knowledge))
          => result'.raised]_vars

Resolved(s) == s.count = 0 \/ (s.count = Cardinality(s.cells) /\ s.count > 0)

\* C7: after every add_knowledge call that returns normally no live sentence is
\* resolved, and one more derive and resolve pass changes nothing.
C7_Fixpoint ==
    Returned("add_knowledge") =>
        /\ \A i \in 1..Len(knowledge) : ~Resolved(knowledge[i])
        /\ ~InferRaises(knowledge)
        /\ ResolveCells([AI EXCEPT !.knowledge = InferKnowledge(@)]) = AI

\* C8: moves_made, safes and mines only grow, and moves_made is a subset of
\* safes after every add_knowledge call.
C8_SetsGrow ==
    [][/\ moves_made \subseteq moves_made'
       /\ safes \subseteq safes'
       /\ mines \subseteq mines'
       /\ result'.op = "add_knowledge" => moves_made' \subseteq safes']_vars

C8_Witness ==
    /\ result.op = "add_knowledge"
    /\ moves_made # {}
    /\ mines # {}
    /\ safes \ moves_made # {}

\* C9: Sentence.mark_safe(cell) removes the cell and keeps the count when the
\* cell is in the sentence, whatever the count, and changes nothing otherwise.
C9_SentenceMarkSafe ==
    [][result'.op = "Sentence.mark_safe" =>
         IF result'.cell \in sent.cells
         THEN sent' = Sentence(sent.cells \ {result'.cell}, sent.count)
         ELSE sent' = sent]_vars

\* C10: Sentence.mark_mine(c) removes c and decrements count on a sentence that
\* contains c, changes nothing on one that does not, and applied a second time
\* gives the same sentence as applied once.
C10_SentenceMarkMine ==
    [][result'.op = "Sentence.mark_mine" =>
         /\ result'.cell \in sent.cells =>
               /\ sent'.cells = sent.cells \ {result'.cell}
               /\ Cardinality(sent'.cells) = Cardinality(sent.cells) - 1
               /\ sent'.count = sent.count - 1
         /\ result'.cell \notin sent.cells => sent' = sent
         /\ SentenceMarkMine(sent', result'.cell) = sent']_vars

\* A count below 0 is reached only by mark_mine on a sentence holding the cell.
C10_Witness ==
    /\ result.op = "Sentence.mark_mine"
    /\ sent.count < 0
    /\ result.cell \notin sent.cells

\* C11: known_mines() is cells when count = |cells| > 0 and known_safes() is
\* cells when count = 0; in every other case each returns the empty set, an
\* empty sentence with count 0 gives the empty set for both, and neither query
\* changes the sentence.
C11_KnownCells ==
    [][/\ result'.op = "Sentence.known_mines" =>
            /\ sent' = sent
            /\ result'.ret = IF sent.count = Cardinality(sent.cells) /\ sent.cells # {}
                             THEN sent.cells ELSE {}
       /\ result'.op = "Sentence.known_safes" =>
            /\ sent' = sent
            /\ result'.ret = IF sent.count = 0 THEN sent.cells ELSE {}]_vars

C11_Witness ==
    /\ result.op = "Sentence.known_mines"
    /\ result.ret # {}
    /\ result.ret = sent.cells

NoDuplicates(k) == \A i, j \in 1..Len(k) : i # j => k[i] # k[j]

\* C12: after add_knowledge returns the knowledge base holds no two sentences
\* with the same cells and the same count.
C12_NoDuplicates ==
    Returned("add_knowledge") => NoDuplicates(knowledge)

OnBoard(cells) == cells \subseteq AllCells(height, width)

\* C13: on a board of any height and width neighbours(cell) of an on-board cell
\* is the cells other than cell within one row and column of it that are on
\* the board, and every cell of a live sentence, of safes, of mines and every
\* cell make_safe_move returns is on the board.
C13_NeighboursOnBoard ==
    /\ \A cell \in Window(height, width) :
           neighbours(cell) = BoardNeighbours(height, width, cell)
    /\ \A i \in 1..Len(knowledge) : OnBoard(knowledge[i].cells)
    /\ OnBoard(safes)
    /\ OnBoard(mines)
    /\ (result.op = "make_safe_move" /\ result.ret # NoCell) => OnBoard({result.ret})

\* The sentences the subset-difference rule derives from knowledge base k: one
\* for every two distinct sentences A, B of k with A.cells a subset of B.cells,
\* B.count >= 1 and a non-empty difference.
SubsetDifferences(k) ==
    {Sentence(k[j].cells \ k[i].cells, k[j].count - k[i].count) :
        <<i, j>> \in {p \in (1..Len(k)) \X (1..Len(k)) :
                         /\ k[p[1]] # k[p[2]]
                         /\ k[p[1]].cells \subseteq k[p[2]].cells
                         /\ k[p[2]].count >= 1
                         /\ k[p[2]].cells \ k[p[1]].cells # {}}}

\* C14: immediately after the derivation pass of add_knowledge the knowledge
\* base holds every sentence of the subset-difference rule, also those whose
\* subset sentence has count 0.
C14_SubsetDifference ==
    [][(result'.op = "add_knowledge" /\ ~result'.raised) =>
         \A c \in SubsetDifferences(Ingest(AI, result'.cell, result'.count).knowledge) :
             Contains(InferKnowledge(Ingest(AI, result'.cell, result'.count).knowledge), c)]_vars

\* to_remove of MinesweeperAI.mark_safe and of MinesweeperAI.mark_mine run on
\* knowledge base k, as sets of sentences.
ZeroSentences(k) == {k[i] : i \in {n \in 1..Len(k) : k[n].count = 0}}

FullSentences(k) ==
    {k[i] : i \in {n \in 1..Len(k) : k[n].count = Cardinality(k[n].cells)}}

RECURSIVE RemovedBySafeAll(_, _)
\* The sentences the mark_safe calls of `for cell in safe_cells` remove.
RemovedBySafeAll(st, cells) ==
    IF cells = {} THEN {}
    ELSE ZeroSentences(st.knowledge)
             \cup RemovedBySafeAll(AIMarkSafe(st, NextCell(cells)), cells \ {NextCell(cells)})

RECURSIVE RemovedByMineAll(_, _)
\* The sentences the mark_mine calls of `for cell in mine_cells` remove.
RemovedByMineAll(st, cells) ==
    IF cells = {} THEN {}
    ELSE FullSentences(st.knowledge)
             \cup RemovedByMineAll(AIMarkMine(st, NextCell(cells)), cells \ {NextCell(cells)})

\* The engine state add_knowledge hands to resolve_cells_from_knowledge.
Derived(st, cell, count) ==
    [Ingest(st, cell, count) EXCEPT !.knowledge = InferKnowledge(@)]

\* The sentences mark_safe removes during add_knowledge(cell, count) on st: by
\* the call of line 222 and by the calls of resolve_cells_from_knowledge.
RemovedAsSafe(st, cell, count) ==
    ZeroSentences(st.knowledge)
        \cup RemovedBySafeAll(Derived(st, cell, count),
                              SafeCells(Derived(st, cell, count).knowledge))

\* The sentences mark_mine removes during add_knowledge(cell, count) on st.
RemovedAsMine(st, cell, count) ==
    RemovedByMineAll(MarkSafeAll(Derived(st, cell, count),
                                 SafeCells(Derived(st, cell, count).knowledge)),
                     MineCells(Derived(st, cell, count).knowledge))

\* C15: when add_knowledge returns, every cell of a sentence its mark_safe calls
\* removed with count 0 is in safes and every cell of a sentence its mark_mine
\* calls removed with count = |cells| is in mines.
C15_NoInformationLost ==
    [][(result'.op = "add_knowledge" /\ ~result'.raised) =>
         /\ \A s \in RemovedAsSafe(AI, result'.cell, result'.count) :
                s.cells \subseteq safes'
         /\ \A s \in RemovedAsMine(AI, result'.cell, result'.count) :
                s.cells \subseteq mines']_vars

\* C16: whatever the cells and counts of the add_knowledge calls made so far,
\* right or wrong, after add_knowledge returns normally no live sentence has
\* no cells and a count other than 0.
C16_NoEmptyContradiction ==
    Returned("add_knowledge") =>
        \A i \in 1..Len(knowledge) :
            ~(knowledge[i].cells = {} /\ knowledge[i].count # 0)

RECURSIVE SafeTrajectory(_, _)
\* The engine states before, between and after the mark_safe calls of
\* `for cell in safe_cells`.
SafeTrajectory(st, cells) ==
    IF cells = {} THEN {st}
    ELSE {st} \cup SafeTrajectory(AIMarkSafe(st, NextCell(cells)), cells \ {NextCell(cells)})

RECURSIVE MineTrajectory(_, _)
\* The engine states before, between and after the mark_mine calls of
\* `for cell in mine_cells`.
MineTrajectory(st, cells) ==
    IF cells = {} THEN {st}
    ELSE {st} \cup MineTrajectory(AIMarkMine(st, NextCell(cells)), cells \ {NextCell(cells)})

\* The values self.knowledge takes during add_knowledge(cell, count) on st:
\* after mark_safe(cell), after the new sentence, inside and after
\* infer_knowledge, and along resolve_cells_from_knowledge.
KnowledgeDuring(st, cell, count) ==
    LET s1 == AIMarkSafe([st EXCEPT !.moves_made = @ \cup {cell}], cell)
        s3 == Ingest(st, cell, count)
        s4 == Derived(st, cell, count)
    IN  {s1.knowledge, s3.knowledge}
          \cup (IF InferRaises(s3.knowledge) THEN {}
                ELSE {AppendNew(s3.knowledge, NewKnowledge(s3.knowledge, 0))}
                       \cup {t.knowledge : t \in SafeTrajectory(s4, SafeCells(s4.knowledge))}
                       \cup {t.knowledge : t \in
                                MineTrajectory(MarkSafeAll(s4, SafeCells(s4.knowledge)),
                                               MineCells(s4.knowledge))})

WellFormed(k) ==
    \A i \in 1..Len(k) : 0 <= k[i].count /\ k[i].count <= Cardinality(k[i].cells)

\* C17: in a truthful game on the board whose side is the bound of neighbours(),
\* every sentence the knowledge base holds during and after add_knowledge has
\* 0 <= count <= |cells|, and add_knowledge never raises.
C17_CountsWithinCells ==
    [][(DefaultBoard /\ result'.op = "add_knowledge") =>
         /\ ~result'.raised
         /\ \A k \in KnowledgeDuring(AI, result'.cell, result'.count) : WellFormed(k)
         /\ WellFormed(knowledge')]_vars

\* A call after which a mine is known and two derived sentences are live.
C17_Witness ==
    /\ DefaultBoard
    /\ Returned("add_knowledge")
    /\ mines # {}
    /\ Len(knowledge) >= 2
    /\ \E i \in 1..Len(knowledge) : Cardinality(knowledge[i].cells) > knowledge[i].count

ResolvedCells == safes \cup mines \cup moves_made

\* C18: in a truthful game, after every add_knowledge call no live sentence
\* holds a cell that is in safes, mines or moves_made.
C18_ResolvedCellsGone ==
    result.op # "init" =>
        \A i \in 1..Len(knowledge) : knowledge[i].cells \cap ResolvedCells = {}

\* C18 on the default 8 x 8 board.
C18_OnDefaultBoard ==
    (DefaultBoard /\ result.op # "init") =>
        \A i \in 1..Len(knowledge) : knowledge[i].cells \cap ResolvedCells = {}

====
